---- MODULE Spec2Model ----
(***************************************************************************)
(* Model of src/putaway.py: the sticker label generator.                   *)
(*                                                                         *)
(* Text is modelled as a sequence of one-character strings, so that        *)
(* substring tests, upper-casing, splitting and truncation are computed    *)
(* character by character as the Python code computes them.                *)
(* Lengths are in tenths of a centimetre (0.9*cm is 9, 7.2*cm is 72).      *)
(***************************************************************************)
EXTENDS Integers, Sequences, FiniteSets, TLC

VARIABLES
    cols,            \* df.columns, a sequence of column names
    rows,            \* the records of df, each a sequence of cells aligned with cols
    date_height,     \* argument date_height (tenths of cm)
    qr_height,       \* argument qr_height (tenths of cm)
    pc,              \* position inside generate_sticker_labels
    grn_col,         \* resolved columns: None or Some(name)
    part_no_col,
    desc_col,
    put_away_col,
    receipt_date_col,
    index,           \* number of records the loop has processed
    all_elements,    \* the flowables handed to doc.build
    qr_datas,        \* the QR payload computed for each processed record
    qr_errors,       \* number of st.error reports made by generate_qr_code
    pages,           \* the pages laid out by doc.build
    result           \* what generate_sticker_labels returned

vars == <<cols, rows, date_height, qr_height, pc, grn_col, part_no_col, desc_col,
          put_away_col, receipt_date_col, index, all_elements, qr_datas, qr_errors,
          pages, result>>

-----------------------------------------------------------------------------
(* Bounds of the model *)

MaxRows == 2         \* records in a multi-record dataset
MaxCols == 3         \* columns in a dataset drawn from the header pool
MaxLocLen == 5       \* characters in a location string drawn from the alphabet
MaxTokens == 9       \* tokens in a generated many-token location string
MaxDescLen == 52     \* longest description length tried

-----------------------------------------------------------------------------
(* Python values *)

None == <<>>
Some(x) == <<x>>

\* a python value is truthy unless it is None or the empty string
Truthy(opt) == opt # None /\ opt[1] # <<>>

\* cells of the DataFrame: a missing value (NaN), a string or an integer
NaN == [t |-> "nan", s |-> <<>>, n |-> 0]
StrCell(s) == [t |-> "str", s |-> s, n |-> 0]
IntCell(n) == [t |-> "int", s |-> <<>>, n |-> n]

notna(cell) == cell.t # "nan"

Digits == <<"0", "1", "2", "3", "4", "5", "6", "7", "8", "9">>

RECURSIVE IntStr(_)
IntStr(n) == IF n < 10 THEN <<Digits[n + 1]>>
             ELSE IntStr(n \div 10) \o <<Digits[(n % 10) + 1]>>

\* str(value) of a cell
PyStr(cell) == CASE cell.t = "nan" -> <<"n", "a", "n">>
                 [] cell.t = "str" -> cell.s
                 [] OTHER -> IntStr(cell.n)

LowerLetters == <<"a", "b", "c", "d", "e", "f", "g", "h", "i", "j", "k", "l", "m",
                  "n", "o", "p", "q", "r", "s", "t", "u", "v", "w", "x", "y", "z">>
UpperLetters == <<"A", "B", "C", "D", "E", "F", "G", "H", "I", "J", "K", "L", "M",
                  "N", "O", "P", "Q", "R", "S", "T", "U", "V", "W", "X", "Y", "Z">>

UpperChar(c) == IF \E i \in 1..26 : LowerLetters[i] = c
                THEN UpperLetters[CHOOSE i \in 1..26 : LowerLetters[i] = c]
                ELSE c
LowerChar(c) == IF \E i \in 1..26 : UpperLetters[i] = c
                THEN LowerLetters[CHOOSE i \in 1..26 : UpperLetters[i] = c]
                ELSE c

\* str.upper()
Upper(s) == [i \in 1..Len(s) |-> UpperChar(s[i])]
Lower(s) == [i \in 1..Len(s) |-> LowerChar(s[i])]

\* the python test: sub in s
Contains(s, sub) ==
    \E i \in 0..(Len(s) - Len(sub)) : SubSeq(s, i + 1, i + Len(sub)) = sub

\* the smallest position of the set hits
FirstIndex(hits) == CHOOSE i \in hits : \A j \in hits : i <= j

\* next((col for col in seq if ...), default), with Some/None results; hits
\* are the positions of seq that pass the test of the generator
PyNext(seq, hits, default) ==
    IF hits # {} THEN Some(seq[FirstIndex(hits)]) ELSE default

-----------------------------------------------------------------------------
(* Literals of the column heuristics *)

T_GRN == <<"G", "R", "N">>
T_NO == <<"N", "O">>
T_NUM == <<"N", "U", "M">>
T_HASH == <<"#">>
T_GRNNO == <<"G", "R", "N", "N", "O">>
T_GRN_NO == <<"G", "R", "N", "_", "N", "O">>
T_GOODS == <<"G", "O", "O", "D", "S">>
T_RECEIPT == <<"R", "E", "C", "E", "I", "P", "T">>
T_PART == <<"P", "A", "R", "T">>
T_PARTNO == <<"P", "A", "R", "T", "N", "O">>
T_DESC == <<"D", "E", "S", "C">>
T_NAME == <<"N", "A", "M", "E">>
T_PUT == <<"P", "U", "T">>
T_AWAY == <<"A", "W", "A", "Y">>
T_PUTAWAY == <<"P", "U", "T", "A", "W", "A", "Y">>
T_LOC == <<"L", "O", "C">>
T_POS == <<"P", "O", "S">>
T_LOCATION == <<"L", "O", "C", "A", "T", "I", "O", "N">>
T_DATE == <<"D", "A", "T", "E">>
T_RECEIPTDATE == <<"R", "E", "C", "E", "I", "P", "T", "D", "A", "T", "E">>
T_RECEIPT_DATE == <<"R", "E", "C", "E", "I", "P", "T", "_", "D", "A", "T", "E">>

HasNumberWord(col) == Contains(col, T_NO) \/ Contains(col, T_NUM) \/ Contains(col, T_HASH)

GrnRule1(col) == Contains(col, T_GRN) /\ HasNumberWord(col)
GrnRule2(col) == col \in {T_GRN, T_GRNNO, T_GRN_NO}
GrnRule3(col) == Contains(col, T_GOODS) /\ Contains(col, T_RECEIPT)

\* the first part-number rule looking for "NO" only
PartRule1_no_only(col) == Contains(col, T_PART) /\ Contains(col, T_NO)

PartRule1(col) == Contains(col, T_PART) /\ HasNumberWord(col)
PartRule2(col) == col \in {T_PARTNO, T_PART}

DescRule1(col) == Contains(col, T_DESC)
DescRule2(col) == Contains(col, T_NAME)

LocRule1(col) == Contains(col, T_PUT) /\ Contains(col, T_AWAY)
LocRule2(col) == Contains(col, T_PUTAWAY)
LocRule3(col) == Contains(col, T_LOC) \/ Contains(col, T_POS) \/ Contains(col, T_LOCATION)

DateRule1(col) == Contains(col, T_RECEIPT) /\ Contains(col, T_DATE)
DateRule2(col) == Contains(col, T_RECEIPTDATE) \/ Contains(col, T_RECEIPT_DATE)
DateRule3(col) == Contains(col, T_DATE)

\* df.columns = [col.upper() ...]
UpperCols(cs) == [i \in 1..Len(cs) |-> Upper(cs[i])]

find_grn_col(cs) ==
    PyNext(cs, {i \in 1..Len(cs) : GrnRule1(cs[i])},
           PyNext(cs, {i \in 1..Len(cs) : GrnRule2(cs[i])},
                  PyNext(cs, {i \in 1..Len(cs) : GrnRule3(cs[i])}, None)))

\* cs is not empty: cols[0] is evaluated before next() is called
find_part_no_col(cs) ==
    PyNext(cs, {i \in 1..Len(cs) : PartRule1(cs[i])},
           PyNext(cs, {i \in 1..Len(cs) : PartRule2(cs[i])}, Some(cs[1])))

\* the description fallback that ignores the second column
find_desc_col_no_second(cs, part) ==
    PyNext(cs, {i \in 1..Len(cs) : DescRule1(cs[i])},
           PyNext(cs, {i \in 1..Len(cs) : DescRule2(cs[i])}, part))

find_desc_col(cs, part) ==
    PyNext(cs, {i \in 1..Len(cs) : DescRule1(cs[i])},
           PyNext(cs, {i \in 1..Len(cs) : DescRule2(cs[i])},
                  IF Len(cs) > 1 THEN Some(cs[2]) ELSE part))

find_put_away_col(cs, dcol) ==
    PyNext(cs, {i \in 1..Len(cs) : LocRule1(cs[i])},
           PyNext(cs, {i \in 1..Len(cs) : LocRule2(cs[i])},
                  PyNext(cs, {i \in 1..Len(cs) : LocRule3(cs[i])},
                         IF Len(cs) > 2 THEN Some(cs[3]) ELSE dcol)))

find_receipt_date_col(cs) ==
    PyNext(cs, {i \in 1..Len(cs) : DateRule1(cs[i])},
           PyNext(cs, {i \in 1..Len(cs) : DateRule2(cs[i])},
                  PyNext(cs, {i \in 1..Len(cs) : DateRule3(cs[i])}, None)))

-----------------------------------------------------------------------------
(* parse_location_string *)

NumSlots == 7

\* the characters matched by \s, which str.strip() removes as well
IsSpace(c) == c \in {" ", "\t", "\n", "\r"}

\* a pattern that forgets the underscore: [^\s]
IsSep_whitespace_only(c) == IsSpace(c)

\* the characters the pattern [^_\s] rejects
IsSep(c) == c = "_" \/ IsSpace(c)

RECURSIVE LStrip(_)
LStrip(s) == IF s # <<>> /\ IsSpace(Head(s)) THEN LStrip(Tail(s)) ELSE s

RECURSIVE RStrip(_)
RStrip(s) == IF s # <<>> /\ IsSpace(s[Len(s)]) THEN RStrip(SubSeq(s, 1, Len(s) - 1)) ELSE s

\* str.strip()
Strip(s) == RStrip(LStrip(s))

\* re.findall(r'([^_\s]+)', s): scan left to right, cur is the match being read
RECURSIVE FindAllFrom(_, _, _)
FindAllFrom(s, cur, acc) ==
    IF s = <<>> THEN (IF cur = <<>> THEN acc ELSE Append(acc, cur))
    ELSE IF IsSep(Head(s))
         THEN FindAllFrom(Tail(s), <<>>, IF cur = <<>> THEN acc ELSE Append(acc, cur))
         ELSE FindAllFrom(Tail(s), Append(cur, Head(s)), acc)

FindAll(s) == FindAllFrom(s, <<>>, <<>>)

\* matches[:n]
Take(seq, n) == SubSeq(seq, 1, IF Len(seq) < n THEN Len(seq) ELSE n)

\* location_str is a python value (a cell): only a non-empty str is parsed
parse_location_string(location_str) ==
    IF location_str.t # "str" \/ location_str.s = <<>>
    THEN [i \in 1..NumSlots |-> <<>>]
    ELSE LET matches == Take(FindAll(Strip(location_str.s)), NumSlots)
         IN  [i \in 1..NumSlots |-> IF i <= Len(matches) THEN matches[i] ELSE <<>>]

-----------------------------------------------------------------------------
(* Extraction of the fields of one record *)

\* row[col]
Lookup(cs, row, col) == row[FirstIndex({i \in 1..Len(cs) : cs[i] = col})]

\* "col and col in row": the column was resolved and labels a cell of the row
Present(cs, col) == Truthy(col) /\ \E i \in 1..Len(cs) : cs[i] = col[1]

\* the extraction without the pd.notna test
OptionalField_no_notna(cs, row, col) ==
    IF Present(cs, col) THEN PyStr(Lookup(cs, row, col[1])) ELSE <<>>

OptionalField(cs, row, col) ==
    IF Present(cs, col) /\ notna(Lookup(cs, row, col[1]))
    THEN PyStr(Lookup(cs, row, col[1]))
    ELSE <<>>

grn_no(cs, row, col) == OptionalField(cs, row, col)

part_no(cs, row, col) == PyStr(Lookup(cs, row, col[1]))

desc(cs, row, col) == PyStr(Lookup(cs, row, col[1]))

put_away_zone(cs, row, col) ==
    IF Present(cs, col) THEN PyStr(Lookup(cs, row, col[1])) ELSE <<>>

receipt_date(cs, row, col) == OptionalField(cs, row, col)

\* receipt_date.split(" ")[0]
RECURSIVE BeforeFirstSpace(_)
BeforeFirstSpace(s) ==
    IF s = <<>> \/ Head(s) = " " THEN <<>>
    ELSE <<Head(s)>> \o BeforeFirstSpace(Tail(s))

T_nan == <<"n", "a", "n">>

\* the cleaning without the split at the space
clean_receipt_date_no_split(rd) == IF rd # <<>> /\ rd # T_nan THEN rd ELSE <<>>

clean_receipt_date(rd) ==
    IF rd # <<>> /\ rd # T_nan
    THEN (IF \E i \in 1..Len(rd) : rd[i] = " " THEN BeforeFirstSpace(rd) ELSE rd)
    ELSE <<>>

L_GRN == <<"G", "R", "N", " ", "N", "o", ":", " ">>
L_PART == <<"P", "a", "r", "t", " ", "N", "o", ":", " ">>
L_DESC == <<"D", "e", "s", "c", "r", "i", "p", "t", "i", "o", "n", ":", " ">>
L_LOC == <<"P", "u", "t", " ", "A", "w", "a", "y", " ", "Z", "o", "n", "e", "/",
           "L", "o", "c", "a", "t", "i", "o", "n", ":", " ">>
L_DATE == <<"R", "e", "c", "e", "i", "p", "t", " ", "D", "a", "t", "e", ":", " ">>
NL == <<"\n">>

qr_data(grn, part, dsc, zone, clean) ==
    L_GRN \o grn \o NL \o L_PART \o part \o NL \o L_DESC \o dsc \o NL
          \o L_LOC \o zone \o NL \o L_DATE \o clean

DescLimit == 50
DescKeep == 47
Ellipsis == <<".", ".", ".">>

\* the truncation with the test len(desc) >= 50
desc_shown_from_50(dsc) ==
    IF Len(dsc) >= DescLimit THEN SubSeq(dsc, 1, DescKeep) \o Ellipsis ELSE dsc

\* desc[:47] + "..." if len(desc) > 50 else desc
desc_shown(dsc) ==
    IF Len(dsc) > DescLimit THEN SubSeq(dsc, 1, DescKeep) \o Ellipsis ELSE dsc

-----------------------------------------------------------------------------
(* Geometry, in tenths of a centimetre *)

STICKER_HEIGHT == 150
CONTENT_BOX_HEIGHT == 72
TopMargin == 2
BottomMargin == STICKER_HEIGHT - CONTENT_BOX_HEIGHT - 2

\* height of the frame SimpleDocTemplate lays the flowables into
FrameHeight == STICKER_HEIGHT - TopMargin - BottomMargin

grn_row_height == 9
header_row_height == 9
desc_row_height == 12
location_row_height == 10
SpacerHeight == 3

\* the sliders of main(): date height 1.0..3.0 and QR height 1.5..4.0, step 0.1
DateHeights == 10..30
QrHeights == 15..40
DefaultDateHeight == 15
DefaultQrHeight == 27

-----------------------------------------------------------------------------
(* The flowables of one record.  rec is the position of the record in df;   *)
(* it is not a field of the flowable, it only records where it came from.   *)

Flowable(kind, rec, height, texts, date_cell, qr) ==
    [kind |-> kind, rec |-> rec, height |-> height, texts |-> texts,
     date_row_height |-> date_cell, qr |-> qr]

PageBreak(rec) == Flowable("PageBreak", rec, 0, <<>>, 0, "")

main_table(rec, grn, part, dsc) ==
    Flowable("main_table", rec, grn_row_height + header_row_height + desc_row_height,
             <<grn, part, desc_shown(dsc)>>, 0, "")

put_away_table(rec, location_parts) ==
    Flowable("put_away_table", rec, location_row_height, location_parts, 0, "")

Spacer(rec) == Flowable("Spacer", rec, SpacerHeight, <<>>, 0, "")

\* rowHeights=[qr_row_height]: the row of the date box and the QR box
BottomRowHeight(dh, qh) == qh

\* qr_image is the Image, or None when generate_qr_code failed
QrCell(qr_ok) == IF qr_ok THEN "Image" ELSE "QR"

bottom_table(rec, clean, dh, qh, qr_ok) ==
    Flowable("bottom_table", rec, BottomRowHeight(dh, qh), <<clean>>, dh, QrCell(qr_ok))

\* elements of the record at position rec (1-based), in append order
LabelElements(rec, cs, row, gc, pcol, dcol, zc, rc, dh, qh, qr_ok) ==
    LET zone == put_away_zone(cs, row, zc)
    IN  << main_table(rec, grn_no(cs, row, gc), part_no(cs, row, pcol), desc(cs, row, dcol)),
           put_away_table(rec, parse_location_string(StrCell(zone))),
           Spacer(rec),
           bottom_table(rec, clean_receipt_date(receipt_date(cs, row, rc)), dh, qh, qr_ok) >>

RowQrData(cs, row, gc, pcol, dcol, zc, rc) ==
    qr_data(grn_no(cs, row, gc), part_no(cs, row, pcol), desc(cs, row, dcol),
            put_away_zone(cs, row, zc), clean_receipt_date(receipt_date(cs, row, rc)))

\* "if index < len(df) - 1": index is the 0-based label of the record
NeedsPageBreak(idx0, n) == idx0 < n - 1

\* doc.build: flowables fill the frame top down; a flowable that does not fit
\* in what is left of the frame starts a new page, and so does a PageBreak.
\* The room is the whole frame height: padding inside the frame would only
\* make it smaller.
RECURSIVE Layout(_, _, _, _)
Layout(elems, done, cur, used) ==
    IF elems = <<>> THEN (IF cur = <<>> THEN done ELSE Append(done, cur))
    ELSE LET e == Head(elems)
         IN  IF e.kind = "PageBreak"
             THEN Layout(Tail(elems), Append(done, cur), <<>>, 0)
             ELSE IF used + e.height > FrameHeight /\ cur # <<>>
                  THEN Layout(elems, Append(done, cur), <<>>, 0)
                  ELSE Layout(Tail(elems), done, Append(cur, e), used + e.height)

Paginate(elems) == Layout(elems, <<>>, <<>>, 0)

-----------------------------------------------------------------------------
(* generate_sticker_labels, step by step *)

\* lines 123-148: normalise the headers and resolve the five columns
ResolveColumns ==
    /\ pc = "start"
    /\ cols' = UpperCols(cols)
    /\ IF Len(cols) = 0
       THEN \* cols[0] raises IndexError, nothing is returned
            /\ pc' = "raised"
            /\ result' = "raised"
            /\ UNCHANGED <<grn_col, part_no_col, desc_col, put_away_col, receipt_date_col>>
       ELSE LET cs == UpperCols(cols)
                part == find_part_no_col(cs)
                dsc == find_desc_col(cs, part)
            IN  /\ grn_col' = find_grn_col(cs)
                /\ part_no_col' = part
                /\ desc_col' = dsc
                /\ put_away_col' = find_put_away_col(cs, dsc)
                /\ receipt_date_col' = find_receipt_date_col(cs)
                /\ pc' = "loop"
                /\ UNCHANGED result
    /\ UNCHANGED <<rows, date_height, qr_height, index, all_elements, qr_datas,
                   qr_errors, pages>>

\* lines 179-360: one iteration of the loop over df.iterrows()
ProcessRow ==
    /\ pc = "loop"
    /\ index < Len(rows)
    /\ \E qr_ok \in BOOLEAN :
         LET rec == index + 1
             row == rows[rec]
             elements == LabelElements(rec, cols, row, grn_col, part_no_col, desc_col,
                                       put_away_col, receipt_date_col,
                                       date_height, qr_height, qr_ok)
         IN  /\ all_elements' = all_elements \o elements \o
                                  (IF NeedsPageBreak(index, Len(rows))
                                   THEN <<PageBreak(rec)>> ELSE <<>>)
             /\ qr_datas' = Append(qr_datas, RowQrData(cols, row, grn_col, part_no_col,
                                                      desc_col, put_away_col,
                                                      receipt_date_col))
             /\ qr_errors' = qr_errors + (IF qr_ok THEN 0 ELSE 1)
    /\ index' = index + 1
    /\ UNCHANGED <<cols, rows, date_height, qr_height, pc, grn_col, part_no_col, desc_col,
                   put_away_col, receipt_date_col, pages, result>>

\* lines 362-371: doc.build succeeds and the path is returned, or it raises
\* and None is returned
BuildDocument ==
    /\ pc = "loop"
    /\ index = Len(rows)
    /\ \/ pages' = Paginate(all_elements) /\ result' = "path"
       \/ pages' = <<>> /\ result' = "None"
    /\ pc' = "done"
    /\ UNCHANGED <<cols, rows, date_height, qr_height, grn_col, part_no_col, desc_col,
                   put_away_col, receipt_date_col, index, all_elements, qr_datas,
                   qr_errors>>

Next == ResolveColumns \/ ProcessRow \/ BuildDocument

\* the state when generate_sticker_labels is entered with the given arguments
Entered(cs, rs, dh, qh) ==
    /\ cols = cs
    /\ rows = rs
    /\ date_height = dh
    /\ qr_height = qh
    /\ pc = "start"
    /\ grn_col = None
    /\ part_no_col = None
    /\ desc_col = None
    /\ put_away_col = None
    /\ receipt_date_col = None
    /\ index = 0
    /\ all_elements = <<>>
    /\ qr_datas = <<>>
    /\ qr_errors = 0
    /\ pages = <<>>
    /\ result = "unset"

-----------------------------------------------------------------------------
(* Inputs: headers and cell values the datasets are drawn from *)

H_GRN_NO == <<"G", "R", "N", " ", "N", "o">>
H_PART_NO == <<"P", "a", "r", "t", " ", "N", "o">>
H_DESCRIPTION == <<"D", "e", "s", "c", "r", "i", "p", "t", "i", "o", "n">>
H_ZONE == <<"P", "u", "t", " ", "A", "w", "a", "y", " ", "Z", "o", "n", "e">>
H_RECEIPT_DATE == <<"R", "e", "c", "e", "i", "p", "t", " ", "D", "a", "t", "e">>
P_Qty == <<"Q", "t", "y">>
P_SKU == <<"S", "K", "U">>
P_Bin == <<"B", "i", "n">>
P_GrnHash == <<"G", "R", "N", "#">>
P_Grn == <<"G", "r", "n">>
P_GoodsReceipt == <<"G", "o", "o", "d", "s", " ", "R", "e", "c", "e", "i", "p", "t">>
P_PartNum == <<"P", "a", "r", "t", " ", "N", "u", "m">>
P_Part == <<"P", "a", "r", "t">>
P_Desc == <<"D", "e", "s", "c">>
P_Name == <<"N", "a", "m", "e">>
P_Putaway == <<"P", "u", "t", "a", "w", "a", "y">>
P_Loc == <<"L", "o", "c">>
P_Date == <<"D", "a", "t", "e">>
Q_GRN_NO == <<"G", "R", "N", "_", "N", "O">>
Q_PartNumber == <<"P", "a", "r", "t", "N", "u", "m", "b", "e", "r">>
Q_Desc == <<"D", "e", "s", "c">>
Q_Store_Location == <<"S", "t", "o", "r", "e", "_", "L", "o", "c", "a", "t", "i", "o", "n">>
Q_ReceiptDate == <<"R", "e", "c", "e", "i", "p", "t", "D", "a", "t", "e">>
V_G7 == <<"G", "7">>
V_X == <<"x">>
V_ZONE == <<"A", "_", "1", " ", "B">>
V_DATETIME == <<"2", "0", "2", "4", "-", "0", "5", "-", "0", "1", " ", "1", "0", ":", "3", "0", ":", "0", "0">>
V_DATE == <<"2", "0", "2", "4", "-", "0", "5", "-", "0", "1">>
V_LEADSPACE == <<" ", "7">>
V_NANTIME == <<"n", "a", "n", " ", "1", "0", ":", "3", "0">>


\* a description of n characters, no two neighbours alike
DescOfLen(n) == [i \in 1..n |-> Digits[(i % 10) + 1]]

DescLens == {0, 3, DescKeep, DescLimit - 1, DescLimit, DescLimit + 1, MaxDescLen}

GrnCells == {NaN, StrCell(V_G7), IntCell(12)}
PartCells == {StrCell(<<"P", "1">>), IntCell(40)}
DescCells == {StrCell(DescOfLen(n)) : n \in DescLens}
ZoneCells == {StrCell(V_ZONE), NaN, IntCell(12)}
DateCells == {NaN, StrCell(<<>>), StrCell(T_nan), StrCell(V_DATETIME), StrCell(V_DATE),
              StrCell(V_LEADSPACE), StrCell(V_NANTIME)}

Standard5 == <<H_GRN_NO, H_PART_NO, H_DESCRIPTION, H_ZONE, H_RECEIPT_DATE>>
NoGrn4 == <<H_PART_NO, H_DESCRIPTION, H_ZONE, H_RECEIPT_DATE>>
NoDate4 == <<H_GRN_NO, H_PART_NO, H_DESCRIPTION, H_ZONE>>
Only3 == <<H_PART_NO, H_DESCRIPTION, H_ZONE>>
Only1 == <<H_PART_NO>>

\* one-record datasets over every combination of the cell values
ContentDatasets ==
    {[c |-> Standard5, r |-> <<<<g, p, d, z, t>>>>] :
        <<g, p, d, z, t>> \in GrnCells \X PartCells \X DescCells \X ZoneCells \X DateCells}
    \cup {[c |-> NoGrn4, r |-> <<<<p, d, z, t>>>>] :
        <<p, d, z, t>> \in PartCells \X DescCells \X ZoneCells \X DateCells}
    \cup {[c |-> NoDate4, r |-> <<<<g, p, d, z>>>>] :
        <<g, p, d, z>> \in GrnCells \X PartCells \X DescCells \X ZoneCells}
    \cup {[c |-> Only3, r |-> <<<<p, d, z>>>>] :
        <<p, d, z>> \in PartCells \X DescCells \X ZoneCells}

\* the record at position i of a dataset with headers cs: its part number is i
SampleCell(h, i) ==
    CASE h = H_GRN_NO -> StrCell(V_G7)
      [] h = H_PART_NO -> IntCell(i)
      [] h = H_DESCRIPTION -> StrCell(DescOfLen(3))
      [] h = H_ZONE -> StrCell(V_ZONE)
      [] OTHER -> StrCell(V_DATE)

SampleRow(cs, i) == [k \in 1..Len(cs) |-> SampleCell(cs[k], i)]

\* datasets of 0..MaxRows records, and the dataset without columns
CountDatasets ==
    {[c |-> cs, r |-> [i \in 1..n |-> SampleRow(cs, i)]] :
        cs \in {Only1, Standard5}, n \in 0..MaxRows}
    \cup {[c |-> <<>>, r |-> <<>>]}

\* a run of generate_sticker_labels: every field combination under the default
\* geometry, and every geometry the sliders offer on datasets of every size
Init ==
    \/ \E ds \in ContentDatasets :
          Entered(ds.c, ds.r, DefaultDateHeight, DefaultQrHeight)
    \/ \E ds \in CountDatasets, dh \in DateHeights, qh \in QrHeights :
          Entered(ds.c, ds.r, dh, qh)

Spec == Init /\ [][Next]_vars

-----------------------------------------------------------------------------
(* Column resolution on many header lists *)

HeaderPool == {P_Qty, P_SKU, P_Bin, P_GrnHash, P_Grn, P_GoodsReceipt, P_PartNum, P_Part,
               P_Desc, P_Name, P_Putaway, P_Loc, P_Date}

\* the sequences of n distinct elements of S
Arrangements(S, n) ==
    {p \in [1..n -> S] : \A i, j \in 1..n : p[i] = p[j] => i = j}

PoolLists == UNION {Arrangements(HeaderPool, n) : n \in 1..MaxCols}

NamedHeaders == {Q_GRN_NO, Q_PartNumber, Q_Desc, Q_Store_Location, Q_ReceiptDate}

\* the five named headers in every order, alone or with one unrelated column,
\* as written, in upper case and in lower case
NamedLists ==
    LET orders == Arrangements(NamedHeaders, 5)
                    \cup Arrangements(NamedHeaders \cup {P_Qty}, 6)
    IN  orders \cup {UpperCols(p) : p \in orders}
               \cup {[i \in 1..Len(p) |-> Lower(p[i])] : p \in orders}

\* one record with a value in every column
FilledRow(cs) == [k \in 1..Len(cs) |-> StrCell(V_X)]

InitResolve ==
    \E cs \in PoolLists \cup NamedLists :
        Entered(cs, <<FilledRow(cs)>>, DefaultDateHeight, DefaultQrHeight)

SpecResolve == InitResolve /\ [][Next]_vars

-----------------------------------------------------------------------------
(* Location parsing on many location strings *)

LocAlphabet == {"A", "1", "_", " "}

ShortLocStrings == UNION {[1..n -> LocAlphabet] : n \in 0..MaxLocLen}

Separators == {<<"_">>, <<" ">>, <<"_", " ">>, <<"\t">>, <<"\n">>}

\* the tokens 1, 2, ..., k joined (and optionally wrapped) by the separator sep
RECURSIVE Joined(_, _)
Joined(k, sep) == IF k = 1 THEN <<Digits[2]>>
                  ELSE Joined(k - 1, sep) \o sep \o <<Digits[(k % 10) + 1]>>

LongLocStrings ==
    UNION {{Joined(k, sep), sep \o Joined(k, sep), Joined(k, sep) \o sep} :
              k \in 1..MaxTokens, sep \in Separators}

LocStrings == ShortLocStrings \cup LongLocStrings

InitTokenize ==
    \E s \in LocStrings :
        Entered(Standard5,
                <<[SampleRow(Standard5, 1) EXCEPT ![4] = StrCell(s)]>>,
                DefaultDateHeight, DefaultQrHeight)

SpecTokenize == InitTokenize /\ [][Next]_vars

-----------------------------------------------------------------------------
(* Vocabulary of the properties *)

Range(seq) == {seq[i] : i \in 1..Len(seq)}

Max(a, b) == IF a >= b THEN a ELSE b

Min(a, b) == IF a <= b THEN a ELSE b

\* the flowables of the given kind appended for record rec
ElementsOf(kind, rec) ==
    {all_elements[k] : k \in {j \in 1..Len(all_elements) :
                                all_elements[j].kind = kind /\ all_elements[j].rec = rec}}

TheElement(kind, rec) == CHOOSE e \in ElementsOf(kind, rec) : TRUE

\* the records the loop has finished
Processed == 1..index

\* the cell of record rec under the resolved column col, NaN when col is None
CellAt(rec, col) ==
    IF col = None THEN NaN
    ELSE rows[rec][CHOOSE k \in 1..Len(cols) : cols[k] = col[1]]

StartsWith(s, prefix) == Len(s) >= Len(prefix) /\ SubSeq(s, 1, Len(prefix)) = prefix

After(s, prefix) == SubSeq(s, Len(prefix) + 1, Len(s))

\* the lines of a text: the pieces between its newline characters
NewlinePositions(s) == {k \in 1..Len(s) : s[k] = "\n"}

LineCount(s) == Cardinality(NewlinePositions(s)) + 1

Line(s, n) ==
    LET nl == NewlinePositions(s)
        lo == IF n = 1 THEN 0
              ELSE CHOOSE k \in nl : Cardinality({j \in nl : j < k}) = n - 2
        hi == IF n = LineCount(s) THEN Len(s) + 1
              ELSE CHOOSE k \in nl : Cardinality({j \in nl : j < k}) = n - 1
    IN  SubSeq(s, lo + 1, hi - 1)

\* the kinds of flowable that make up one label, in order
LabelKinds == <<"main_table", "put_away_table", "Spacer", "bottom_table">>

IsLabelOf(page, rec) ==
    /\ Len(page) = Len(LabelKinds)
    /\ \A k \in 1..Len(page) : page[k].kind = LabelKinds[k] /\ page[k].rec = rec

-----------------------------------------------------------------------------
(* C1: a dataset of n >= 1 records yields a document of exactly n pages,    *)
(* and page i carries the complete label of record i and nothing else.      *)
C1_OnePagePerRecord ==
    (pc = "done" /\ result = "path" /\ Len(rows) >= 1) =>
        /\ Len(pages) = Len(rows)
        /\ \A i \in 1..Len(pages) : IsLabelOf(pages[i], i)

\* the part of C1 that is about the flowable list: the elements of the
\* records follow each other in record order, separated by one page break
ElementListInOrder ==
    pc = "done" =>
        /\ Len(all_elements) = 5 * Len(rows) - (IF Len(rows) = 0 THEN 0 ELSE 1)
        /\ \A k \in 1..Len(all_elements) :
              LET rec == ((k - 1) \div 5) + 1
                  pos == ((k - 1) % 5) + 1
              IN  /\ all_elements[k].rec = rec
                  /\ all_elements[k].kind = (IF pos = 5 THEN "PageBreak" ELSE LabelKinds[pos])

(* C2: a dataset with zero records or zero columns is rejected before any   *)
(* document build is started, and no PDF path is returned.                  *)
C2_EmptyDatasetRejected ==
    (Len(rows) = 0 \/ Len(cols) = 0) => (pc # "done" /\ result # "path")

(* C9: the bottom row of every label is as high as the taller of the date   *)
(* height and the QR height, so the date cell is never higher than its row. *)
C9_BottomRowIsTaller ==
    \A rec \in Processed :
        \A e \in ElementsOf("bottom_table", rec) :
            /\ e.height = Max(date_height, qr_height)
            /\ e.date_row_height <= e.height

(* C4: the QR payload of every record is five lines, labelled GRN No, Part   *)
(* No, Description, Location and Receipt Date in that order, every line     *)
(* present; a missing GRN number or receipt date (no column resolved, or a  *)
(* missing cell) leaves nothing after the label of its line.                *)
C4_QrPayloadFiveLines ==
    \A rec \in 1..Len(qr_datas) :
        LET q == qr_datas[rec]
        IN  /\ LineCount(q) = 5
            /\ StartsWith(Line(q, 1), L_GRN)
            /\ StartsWith(Line(q, 2), L_PART)
            /\ StartsWith(Line(q, 3), L_DESC)
            /\ StartsWith(Line(q, 4), L_LOC)
            /\ StartsWith(Line(q, 5), L_DATE)
            /\ After(Line(q, 2), L_PART) = PyStr(CellAt(rec, part_no_col))
            /\ ~notna(CellAt(rec, grn_col)) => Line(q, 1) = L_GRN
            /\ notna(CellAt(rec, grn_col)) =>
                   After(Line(q, 1), L_GRN) = PyStr(CellAt(rec, grn_col))
            /\ ~notna(CellAt(rec, receipt_date_col)) => Line(q, 5) = L_DATE

\* a record without GRN column or value and without receipt date has its payload
C4_Witness ==
    \E rec \in 1..Len(qr_datas) :
        /\ ~notna(CellAt(rec, grn_col))
        /\ ~notna(CellAt(rec, receipt_date_col))
        /\ Line(qr_datas[rec], 1) = L_GRN
        /\ grn_col # None

\* the text of the receipt-date cell, "" when the value is missing
RawDate(rec) ==
    IF notna(CellAt(rec, receipt_date_col))
    THEN PyStr(CellAt(rec, receipt_date_col)) ELSE <<>>

HasSpace(s) == \E k \in 1..Len(s) : s[k] = " "

FirstSpace(s) == CHOOSE k \in 1..Len(s) : s[k] = " " /\ \A j \in 1..(k - 1) : s[j] # " "

\* the date printed in the date box of record rec
ShownDate(rec) == TheElement("bottom_table", rec).texts[1]

(* C5: the cleaned receipt date is the text before the first space when the *)
(* raw value has a space, the raw value itself when it has none, and empty  *)
(* when the raw value is "nan", empty or missing.                           *)
C5_ReceiptDateCleaning ==
    \A rec \in Processed :
        LET raw == RawDate(rec)
            shown == ShownDate(rec)
        IN  /\ (raw = <<>> \/ raw = T_nan) => shown = <<>>
            /\ (raw # <<>> /\ raw # T_nan /\ HasSpace(raw)) =>
                   shown = SubSeq(raw, 1, FirstSpace(raw) - 1)
            /\ (raw # <<>> /\ raw # T_nan /\ ~HasSpace(raw)) => shown = raw
            /\ After(Line(qr_datas[rec], 5), L_DATE) = shown

\* a date with a time part has been cut at the space
C5_Witness ==
    \E rec \in Processed :
        /\ RawDate(rec) = V_DATETIME
        /\ ShownDate(rec) = V_DATE

(* C6: a description of more than 50 characters is shown as its first 47    *)
(* characters followed by "...", a shorter one is shown unchanged, and the  *)
(* QR payload always carries the whole description.                         *)
C6_DescriptionTruncation ==
    \A rec \in Processed :
        LET d == PyStr(CellAt(rec, desc_col))
            shown == TheElement("main_table", rec).texts[3]
        IN  /\ Len(d) > 50 =>
                 /\ Len(shown) = 50
                 /\ SubSeq(shown, 1, 47) = SubSeq(d, 1, 47)
                 /\ SubSeq(shown, 48, 50) = <<".", ".", ".">>
            /\ Len(d) <= 50 => shown = d
            /\ Line(qr_datas[rec], 3) = L_DESC \o d

\* a description of 51 characters has been cut and one of 50 has not
C6_Witness ==
    \E rec \in Processed :
        /\ Len(PyStr(CellAt(rec, desc_col))) = 51
        /\ Len(TheElement("main_table", rec).texts[3]) = 50
        /\ Len(Line(qr_datas[rec], 3)) = Len(L_DESC) + 51

(* C8: when QR generation fails for a record its label is composed with the *)
(* "QR" placeholder, the run goes on over the later records, and the        *)
(* document has one page per record.                                        *)
C8_QrFailureRecovered ==
    (pc = "done" /\ result = "path" /\ qr_errors > 0) =>
        /\ index = Len(rows)
        /\ \A rec \in 1..Len(rows) : TheElement("bottom_table", rec).qr \in {"Image", "QR"}
        /\ Cardinality({rec \in 1..Len(rows) : TheElement("bottom_table", rec).qr = "QR"})
              = qr_errors
        /\ Len(pages) = Len(rows)

\* the part of C8 that is about the loop: every record is composed, and the
\* placeholders are exactly as many as the failures reported
QrFailureKeepsLoopGoing ==
    (pc = "done" /\ qr_errors > 0) =>
        /\ index = Len(rows)
        /\ \A rec \in 1..Len(rows) : Cardinality(ElementsOf("bottom_table", rec)) = 1
        /\ Cardinality({rec \in 1..Len(rows) : TheElement("bottom_table", rec).qr = "QR"})
              = qr_errors

-----------------------------------------------------------------------------
(* Properties of parse_location_string, checked under SpecTokenize *)

\* the maximal runs of s without whitespace and underscore, as <<first, last>>
TokenRuns(s) ==
    {r \in (1..Len(s)) \X (1..Len(s)) :
        /\ r[1] <= r[2]
        /\ \A k \in r[1]..r[2] : ~(s[k] = "_" \/ IsSpace(s[k]))
        /\ (r[1] = 1 \/ s[r[1] - 1] = "_" \/ IsSpace(s[r[1] - 1]))
        /\ (r[2] = Len(s) \/ s[r[2] + 1] = "_" \/ IsSpace(s[r[2] + 1]))}

\* the n-th run of s in input order
NthRun(s, n) ==
    CHOOSE r \in TokenRuns(s) : Cardinality({q \in TokenRuns(s) : q[1] < r[1]}) = n - 1

\* the location string of record rec as it is handed to parse_location_string
ZoneText(rec) == PyStr(CellAt(rec, put_away_col))

(* C3: the location grid has exactly 7 slots; slot n holds the n-th maximal *)
(* run of non-separator characters of the location string for n up to      *)
(* min(7, k), the slots after that are empty and runs after the 7th are     *)
(* dropped.                                                                 *)
C3_LocationSlots ==
    \A rec \in Processed :
        LET s == ZoneText(rec)
            k == Cardinality(TokenRuns(s))
            slots == TheElement("put_away_table", rec).texts
        IN  /\ Len(slots) = 7
            /\ \A n \in 1..7 :
                  IF n <= Min(7, k)
                  THEN slots[n] = SubSeq(s, NthRun(s, n)[1], NthRun(s, n)[2])
                  ELSE slots[n] = <<>>

\* a string of more than 7 tokens has filled the 7 slots with its first 7
C3_Witness ==
    \E rec \in Processed :
        /\ Cardinality(TokenRuns(ZoneText(rec))) > 7
        /\ TheElement("put_away_table", rec).texts =
              <<<<"1">>, <<"2">>, <<"3">>, <<"4">>, <<"5">>, <<"6">>, <<"7">>>>

-----------------------------------------------------------------------------
(* Properties of the column resolution, checked under SpecResolve *)

Resolved == pc \in {"loop", "done"}

NamedUpper == {Upper(h) : h \in NamedHeaders}

PartMatches(col) ==
    \/ Contains(col, T_PART) /\ (Contains(col, T_NO) \/ Contains(col, T_NUM) \/ Contains(col, T_HASH))
    \/ col = T_PARTNO
    \/ col = T_PART

DescMatches(col) == Contains(col, T_DESC) \/ Contains(col, T_NAME)

LocMatches(col) ==
    \/ Contains(col, T_PUT) /\ Contains(col, T_AWAY)
    \/ Contains(col, T_LOC)
    \/ Contains(col, T_POS)

IsColumn(opt) == opt # None /\ opt[1] \in Range(cols)

(* C10: with at least one column, PART_NUMBER, DESCRIPTION and LOCATION are *)
(* always columns of the dataset and GRN_NUMBER and RECEIPT_DATE are        *)
(* columns or none; without a name match PART_NUMBER is the first column,   *)
(* DESCRIPTION the second if there is one and else the PART_NUMBER column,  *)
(* LOCATION the third if there is one and else the DESCRIPTION column; a    *)
(* name match always wins over the positional fallback.                     *)
C10_RolesResolve ==
    (Resolved /\ Len(cols) >= 1) =>
        /\ IsColumn(part_no_col) /\ IsColumn(desc_col) /\ IsColumn(put_away_col)
        /\ grn_col = None \/ IsColumn(grn_col)
        /\ receipt_date_col = None \/ IsColumn(receipt_date_col)
        /\ IF \E c \in Range(cols) : PartMatches(c)
           THEN PartMatches(part_no_col[1])
           ELSE part_no_col = Some(cols[1])
        /\ IF \E c \in Range(cols) : DescMatches(c)
           THEN DescMatches(desc_col[1])
           ELSE desc_col = (IF Len(cols) >= 2 THEN Some(cols[2]) ELSE part_no_col)
        /\ IF \E c \in Range(cols) : LocMatches(c)
           THEN LocMatches(put_away_col[1])
           ELSE put_away_col = (IF Len(cols) >= 3 THEN Some(cols[3]) ELSE desc_col)

\* two unrelated columns and a name match in third place: the description
\* falls back to the second column, the location to the description column
\* and the part number is the matching third column
C10_Witness ==
    /\ Resolved
    /\ cols = <<Upper(P_Qty), Upper(P_SKU), Upper(P_Part)>>
    /\ part_no_col = Some(cols[3])
    /\ desc_col = Some(cols[2])
    /\ put_away_col = Some(cols[3])

-----------------------------------------------------------------------------
(* Properties of the location field and of the label height, under Spec *)

EmptySlots == [n \in 1..7 |-> <<>>]

(* C11: a record whose location cell is missing (NaN) or is not a string    *)
(* (a number) gets a location grid of empty slots only; no slot shows text  *)
(* such as "nan".                                                           *)
C11_MissingLocationEmptySlots ==
    \A rec \in Processed :
        CellAt(rec, put_away_col).t # "str" =>
            TheElement("put_away_table", rec).texts = EmptySlots

\* the part of C11 that is about the tokenizer alone: handed a value that is
\* not a string, it returns empty slots
TokenizerTreatsNonStringAsEmpty ==
    \A rec \in Processed :
        CellAt(rec, put_away_col).t # "str" =>
            parse_location_string(CellAt(rec, put_away_col)) = EmptySlots

\* the height of the label of record rec: its four flowables stacked
LabelHeight(rec) ==
    TheElement("main_table", rec).height + TheElement("put_away_table", rec).height
        + TheElement("Spacer", rec).height + TheElement("bottom_table", rec).height

(* C12: for every QR height the sliders accept, the label (GRN row 0.9, Part *)
(* No row 0.9, Description row 1.2, location row 1.0, spacer 0.3 and the     *)
(* bottom row) is no higher than the 7.2 cm content box.                     *)
C12_LabelFitsContentBox ==
    \A rec \in Processed :
        /\ LabelHeight(rec) = 9 + 9 + 12 + 10 + 3 + qr_height
        /\ LabelHeight(rec) <= 72

====
